---- MODULE Spec2Model ----
\* Verification model of the Record codec of mosaic-core (src/src/record.rs).
\*
\* Byte strings are kept run-length encoded: a byte string is a sequence of
\* runs [k, v, n], n >= 1 copies of one byte value, adjacent runs different.
\*   k = "b"    v is a plain byte 0..255
\*   k = "key"  v names an Ed25519 public key (32 such bytes are that key)
\*   k = "hash" v is the byte string BLAKE3 absorbed (40 such bytes are the
\*              truncated XOF output; BLAKE3 is taken to be collision free)
\*   k = "sig"  v is <<signing key, byte string absorbed>> (64 such bytes are
\*              the Ed25519ph signature; signatures are taken unforgeable)
\* usize is 64 bits wide: no sum of a u16, a u32 and 208 wraps.
EXTENDS Integers, Sequences, FiniteSets, TLC

\* ---------------------------------------------------------------- bounds
MaxSmallLen == 1
MaxTsIndex == 2
MaxKey == 1
MaxSlack == 1

\* ------------------------------------------------------- layout constants
HEADER_LEN == 208
MAX_RECORD_LEN == 1048576
MAX_TAGS_LEN == 65536
SIG_START == 0
SIG_END == 64
ID_START == 64
BE_TIMESTAMP_END == 70
HASH_START == 72
HASH_END == 112
SIGNING_KEY_START == 112
SIGNING_KEY_END == 144
ADDRESS_START == 144
NONCE_END == 158
KIND_START == 158
KIND_END == 160
AUTHOR_KEY_START == 160
AUTHOR_KEY_END == 192
FLAGS_START == 192
FLAGS_END == 194
TIMESTAMP_START == 194
TIMESTAMP_END == 200
APPFLAGS_START == 200
APPFLAGS_END == 202
LEN_T_START == 202
LEN_T_END == 204
LEN_P_START == 204
LEN_P_END == 208
HASHABLE_START == 112

\* ------------------------------------------------------------ byte strings
Run(k, v, n) == [k |-> k, v |-> v, n |-> n]

Plain(b, n) == IF n <= 0 THEN <<>> ELSE <<Run("b", b, n)>>

SameVal(r, s) == r.k = s.k /\ r.v = s.v

RECURSIVE BLen(_)
BLen(bs) == IF bs = <<>> THEN 0 ELSE Head(bs).n + BLen(Tail(bs))

\* canonical form: no empty run, no two adjacent runs of the same byte value
RECURSIVE Norm(_)
Norm(bs) ==
    IF bs = <<>> THEN <<>>
    ELSE IF Head(bs).n <= 0 THEN Norm(Tail(bs))
    ELSE LET rest == Norm(Tail(bs)) IN
         IF rest # <<>> /\ SameVal(Head(bs), Head(rest))
         THEN <<Run(Head(bs).k, Head(bs).v, Head(bs).n + Head(rest).n)>> \o Tail(rest)
         ELSE <<Head(bs)>> \o rest

\* the first n bytes, bs[..n]; the caller has checked n <= BLen(bs)
RECURSIVE Take(_, _)
Take(bs, n) ==
    IF n <= 0 \/ bs = <<>> THEN <<>>
    ELSE IF Head(bs).n <= n THEN <<Head(bs)>> \o Take(Tail(bs), n - Head(bs).n)
    ELSE <<Run(Head(bs).k, Head(bs).v, n)>>

\* all but the first n bytes, bs[n..]
RECURSIVE Drop(_, _)
Drop(bs, n) ==
    IF bs = <<>> THEN <<>>
    ELSE IF n <= 0 THEN bs
    ELSE IF Head(bs).n <= n THEN Drop(Tail(bs), n - Head(bs).n)
    ELSE <<Run(Head(bs).k, Head(bs).v, Head(bs).n - n)>> \o Tail(bs)

\* bs[a..b]
Slice(bs, a, b) == Take(Drop(bs, a), b - a)

\* buffer[a..a+src.len()].copy_from_slice(src)
CopyFromSlice(buffer, a, src) ==
    Norm(Take(buffer, a) \o src \o Drop(buffer, a + BLen(src)))

\* the run holding byte i (0-based)
RECURSIVE At(_, _)
At(bs, i) == IF i < Head(bs).n THEN Head(bs) ELSE At(Tail(bs), i - Head(bs).n)

ByteVal(r) == IF r.k = "b" THEN r.v ELSE 0

\* equality of byte strings in canonical form
RECURSIVE SameBytes(_, _)
SameBytes(x, y) ==
    IF x = <<>> \/ y = <<>> THEN x = <<>> /\ y = <<>>
    ELSE /\ Head(x).n = Head(y).n
         /\ SameVal(Head(x), Head(y))
         /\ SameBytes(Tail(x), Tail(y))

\* ------------------------------------------------------ integer encodings
\* little-endian bytes of v, w of them (v.to_le_bytes())
RECURSIVE ToLe(_, _)
ToLe(v, w) == IF w = 0 THEN <<>> ELSE Plain(v % 256, 1) \o ToLe(v \div 256, w - 1)

to_le_bytes(v, w) == Norm(ToLe(v, w))

\* uN::from_le_bytes(bs)
RECURSIVE from_le_bytes(_)
from_le_bytes(bs) ==
    IF bs = <<>> THEN 0
    ELSE ByteVal(At(bs, 0)) + 256 * from_le_bytes(Drop(bs, 1))

\* value as u16 / as u32
AsU16(v) == v % 65536
AsU32(v) == (v % 65536) + 65536 * ((v \div 65536) % 65536)

\* padded_len!(len) = (len + 7) & !7
padded_len(len) == ((len + 7) \div 8) * 8

RECURSIVE BitAnd(_, _, _)
BitAnd(a, b, w) ==
    IF w = 0 THEN 0
    ELSE ((a % 2) * (b % 2)) + 2 * BitAnd(a \div 2, b \div 2, w - 1)

\* ------------------------------------------------------------- Timestamp
\* A Timestamp is its six base-256 digits, most significant first.
TS_WIDTH == 6

RECURSIVE Digits(_, _)
Digits(v, w) == IF w = 0 THEN <<>> ELSE Digits(v \div 256, w - 1) \o <<v % 256>>

TimestampOf(v) == Digits(v, TS_WIDTH)

RECURSIVE PlainDigits(_)
PlainDigits(ds) == IF ds = <<>> THEN <<>> ELSE Plain(Head(ds), 1) \o PlainDigits(Tail(ds))

RECURSIVE Reverse(_)
Reverse(s) == IF s = <<>> THEN <<>> ELSE Reverse(Tail(s)) \o <<Head(s)>>

\* timestamp.to_be_bytes()
Timestamp_to_be_bytes(t) == Norm(PlainDigits(t))

\* timestamp.to_bytes(), little-endian
Timestamp_to_bytes(t) == Norm(PlainDigits(Reverse(t)))

\* the digits of six little-endian bytes
LeDigits(bs) == Reverse([i \in 1..TS_WIDTH |-> ByteVal(At(bs, i - 1))])

\* Timestamp::from_bytes(bs) succeeds: the value is in range
Timestamp_in_range(bs) == LeDigits(bs)[1] < 128

\* a < b on timestamps
RECURSIVE LexLess(_, _)
LexLess(a, b) ==
    IF a = <<>> \/ b = <<>> THEN FALSE
    ELSE IF Head(a) # Head(b) THEN Head(a) < Head(b)
    ELSE LexLess(Tail(a), Tail(b))

\* ------------------------------------------------------------ PublicKey
KEY_WIDTH == 32

PublicKey_as_bytes(key) == <<Run("key", key, KEY_WIDTH)>>

IsKeyBytes(bs) == Len(bs) = 1 /\ bs[1].k = "key" /\ bs[1].n = KEY_WIDTH

\* PublicKey::from_bytes(bs) succeeds. Thirty-two bytes that are no key of
\* the model may or may not decompress to a curve point: decompresses says which.
PublicKey_from_bytes_ok(bs, decompresses) == IsKeyBytes(bs) \/ decompresses

\* -------------------------------------------------------------- Address
NONCE_WIDTH == 14

Address_bytes(nonce, knd, author) ==
    Norm(Plain(nonce, NONCE_WIDTH) \o to_le_bytes(knd, 2) \o PublicKey_as_bytes(author))

\* Address::new_random(public, kind): random is the byte the CSPRNG produced
Address_new_random(author, knd, random) == Address_bytes(random, knd, author)

\* Address::new_deterministic(public, kind, key)
Address_new_deterministic(author, knd, key) == Address_bytes(128 + key, knd, author)

\* ---------------------------------------------------------- RecordFlags
\* RecordFlags::all(): the union of the declared (well-known) flags
RecordFlags_all == 63

RecordFlags_empty == 0

\* flags & RecordFlags::all() != RecordFlags::empty()
FlagsRejected(flags) == BitAnd(flags, RecordFlags_all, 16) # RecordFlags_empty

\* ------------------------------------------------------------- crypto
\* the 40 bytes written to HASH_RANGE after the hasher absorbed bs
Blake3_truncated(bs) == <<Run("hash", bs, HASH_END - HASH_START)>>

\* sign_prehashed(digest, Some(b"Mosaic")).to_bytes()
sign_prehashed(key, bs) == <<Run("sig", <<key, bs>>, SIG_END - SIG_START)>>

IsSigBytes(bs) == Len(bs) = 1 /\ bs[1].k = "sig" /\ bs[1].n = SIG_END - SIG_START

\* verify_prehashed_strict(digest, Some(b"Mosaic"), &signature) succeeds
verify_prehashed_strict(keybytes, bs, sigbytes) ==
    /\ IsKeyBytes(keybytes)
    /\ IsSigBytes(sigbytes)
    /\ sigbytes[1].v[1] = keybytes[1].v
    /\ SameBytes(sigbytes[1].v[2], bs)

\* ------------------------------------------------------------- accessors
tags_len(self) == from_le_bytes(Slice(self, LEN_T_START, LEN_T_END))

tags_padded_len(self) == padded_len(tags_len(self))

payload_len(self) == from_le_bytes(Slice(self, LEN_P_START, LEN_P_END))

payload_padded_len(self) == padded_len(payload_len(self))

flags(self) == from_le_bytes(Slice(self, FLAGS_START, FLAGS_END))

app_flags(self) == from_le_bytes(Slice(self, APPFLAGS_START, APPFLAGS_END))

kind(self) == from_le_bytes(Slice(self, KIND_START, KIND_END))

\* timestamp(): Timestamp::from_bytes(TIMESTAMP_RANGE).unwrap()
timestamp(self) == LeDigits(Slice(self, TIMESTAMP_START, TIMESTAMP_END))

id(self) == Slice(self, ID_START, HASH_END)

\* record.address(): the 48 bytes of ADDRESS_RANGE, nonce, kind and author key
Record_address(self) == Slice(self, ADDRESS_START, AUTHOR_KEY_END)

\* the length of the array nonce() returns a reference to, &[u8; 8]
NONCE_ARRAY_LEN == 8

\* self.0[NONCE_RANGE].try_into().unwrap(): the conversion of a slice to an
\* array reference fails unless the slice has the length of the array, and
\* unwrap panics on the failure
nonce_ok(self) == BLen(Slice(self, ADDRESS_START, NONCE_END)) = NONCE_ARRAY_LEN

nonce(self) == Slice(self, ADDRESS_START, NONCE_END)

\* slicing self.0[a..b] panics when b exceeds the length
SliceInRange(self, a, b) == a <= b /\ b <= BLen(self)

tags_bytes_ok(self) == SliceInRange(self, HEADER_LEN, HEADER_LEN + tags_len(self))

tags_bytes(self) == Slice(self, HEADER_LEN, HEADER_LEN + tags_len(self))

payload_bytes_ok(self) ==
    SliceInRange(self, HEADER_LEN + tags_padded_len(self),
                 HEADER_LEN + tags_padded_len(self) + payload_len(self))

payload_bytes(self) ==
    Slice(self, HEADER_LEN + tags_padded_len(self),
          HEADER_LEN + tags_padded_len(self) + payload_len(self))

\* the hash covering the sections only, from HEADER_LEN on
HashableBytes_sections_only(bs) == Drop(bs, HEADER_LEN)

\* &buffer[HASHABLE_RANGE]
HashableBytes(bs) == Drop(bs, HASHABLE_START)

\* ----------------------------------------------------------------- verify
\* every fixed-offset read of verify lies below HEADER_LEN; indexing past the
\* end of self.0 panics
FixedFieldsInRange(self) == SliceInRange(self, 0, LEN_P_END)

\* the length compared with the end of the Id instead of HEADER_LEN
TooShort_id_only(self) == BLen(self) < HASH_END

\* self.0.len() < HEADER_LEN
TooShort(self) == BLen(self) < HEADER_LEN

verify(self, decompresses) ==
    IF BLen(self) > MAX_RECORD_LEN THEN "RecordTooLong"
    ELSE IF TooShort(self) THEN "RecordTooShort"
    ELSE IF ~FixedFieldsInRange(self) THEN "panic"
    ELSE IF HEADER_LEN + tags_padded_len(self) + payload_padded_len(self) # BLen(self)
         THEN "RecordSectionLengthMismatch"
    ELSE IF ~PublicKey_from_bytes_ok(Slice(self, SIGNING_KEY_START, SIGNING_KEY_END), decompresses)
         THEN "PublicKeyError"
    ELSE IF ~PublicKey_from_bytes_ok(Slice(self, AUTHOR_KEY_START, AUTHOR_KEY_END), decompresses)
         THEN "PublicKeyError"
    ELSE IF ~SameBytes(Blake3_truncated(HashableBytes(self)), Slice(self, HASH_START, HASH_END))
         THEN "HashMismatch"
    ELSE IF ~verify_prehashed_strict(Slice(self, SIGNING_KEY_START, SIGNING_KEY_END),
                                     HashableBytes(self), Slice(self, SIG_START, SIG_END))
         THEN "SignatureError"
    ELSE IF ~Timestamp_in_range(Slice(self, TIMESTAMP_START, TIMESTAMP_END))
         THEN "TimestampOutOfRange"
    ELSE IF FlagsRejected(flags(self)) THEN "ReservedFlagsUsed"
    ELSE IF ByteVal(At(self, 70)) # 0 \/ ByteVal(At(self, 71)) # 0 THEN "IdZerosAreNotZero"
    ELSE "Ok"

\* ------------------------------------------------- write_replacement_record
NoRecord == <<>>

Outcome(res, buffer, rec) == [res |-> res, buffer |-> buffer, rec |-> rec]

\* lines 134-156: payload, tags, the two lengths, application flags,
\* timestamp, flags, address and signing key, in the order the code writes them
WriteFields(buffer, key, address, ts, fl, appfl, tags, payload) ==
    LET tag_end == HEADER_LEN + padded_len(BLen(tags))
        b1 == CopyFromSlice(buffer, tag_end, payload)
        b2 == CopyFromSlice(b1, HEADER_LEN, tags)
        b3 == CopyFromSlice(b2, LEN_P_START, to_le_bytes(AsU32(BLen(payload)), 4))
        b4 == CopyFromSlice(b3, LEN_T_START, to_le_bytes(AsU16(BLen(tags)), 2))
        b5 == CopyFromSlice(b4, APPFLAGS_START, to_le_bytes(appfl, 2))
        b6 == CopyFromSlice(b5, TIMESTAMP_START, Timestamp_to_bytes(ts))
        b7 == CopyFromSlice(b6, FLAGS_START, to_le_bytes(fl, 2))
        b8 == CopyFromSlice(b7, ADDRESS_START, address)
    IN  CopyFromSlice(b8, SIGNING_KEY_START, PublicKey_as_bytes(key))

\* lines 158-171: hash of buffer[112..], time prefix, signature
HashAndSign(buffer, key, ts) ==
    LET absorbed == HashableBytes(buffer)
        b1 == CopyFromSlice(buffer, HASH_START, Blake3_truncated(absorbed))
        b2 == CopyFromSlice(b1, ID_START, Timestamp_to_be_bytes(ts))
    IN  CopyFromSlice(b2, SIG_START, sign_prehashed(key, absorbed))

\* the total compared with >= instead of >
TooLong_inclusive(tagslen, len) == tagslen > MAX_TAGS_LEN \/ len >= MAX_RECORD_LEN

\* tags_bytes.len() > 65_536, and then len > 1_048_576
TooLong(tagslen, len) == tagslen > MAX_TAGS_LEN \/ len > MAX_RECORD_LEN

write_replacement_record(buffer, key, address, ts, fl, appfl, tags, payload, debug) ==
    LET len == HEADER_LEN + padded_len(BLen(tags)) + padded_len(BLen(payload)) IN
    IF TooLong(BLen(tags), len) THEN Outcome("RecordTooLong", buffer, NoRecord)
    ELSE IF BLen(buffer) < len THEN Outcome("EndOfOutput", buffer, NoRecord)
    ELSE IF FlagsRejected(fl) THEN Outcome("ReservedFlagsUsed", buffer, NoRecord)
    ELSE LET written == HashAndSign(WriteFields(buffer, key, address, ts, fl, appfl, tags, payload),
                                    key, ts)
             record == Take(written, len)
         IN  IF debug /\ verify(record, FALSE) # "Ok"
             THEN Outcome(verify(record, FALSE), written, NoRecord)
             ELSE Outcome("Ok", written, record)

\* ------------------------------------------------------------- OwnedRecord
new_replacement(key, address, ts, fl, appfl, tags, payload, debug) ==
    LET len == HEADER_LEN + padded_len(BLen(tags)) + padded_len(BLen(payload)) IN
    IF TooLong(BLen(tags), len) THEN Outcome("RecordTooLong", <<>>, NoRecord)
    ELSE LET w == write_replacement_record(Plain(0, len), key, address, ts, fl, appfl,
                                           tags, payload, debug)
         IN  IF w.res # "Ok" THEN Outcome(w.res, <<>>, NoRecord)
             ELSE Outcome("Ok", <<>>, w.buffer)

\* ------------------------------------------------------------- from_bytes
from_bytes(input) ==
    IF BLen(input) < HEADER_LEN THEN Outcome("EndOfInput", <<>>, NoRecord)
    ELSE LET len == HEADER_LEN
                    + padded_len(from_le_bytes(Slice(input, LEN_T_START, LEN_T_END)))
                    + padded_len(from_le_bytes(Slice(input, LEN_P_START, LEN_P_END)))
         IN  IF len > MAX_RECORD_LEN THEN Outcome("RecordTooLong", <<>>, NoRecord)
             ELSE IF ~SliceInRange(input, 0, len) THEN Outcome("panic", <<>>, NoRecord)
             ELSE Outcome("Ok", <<>>, Take(input, len))

\* OwnedRecord::from_vec(vec)
from_vec(vec, decompresses) ==
    IF verify(vec, decompresses) # "Ok" THEN Outcome(verify(vec, decompresses), <<>>, NoRecord)
    ELSE Outcome("Ok", <<>>, vec)

\* ------------------------------------------------------------------ state
VARIABLES debug_assertions, op, args, res, rec, buffer

vars == <<debug_assertions, op, args, res, rec, buffer>>

\* ----------------------------------------------------------------- inputs
Keys == 1..MaxKey

Kinds == {513}

TsVals == {TimestampOf(255 * i) : i \in 1..MaxTsIndex}

\* no flag, a declared flag (bit 0), an undeclared one (bit 15)
FlagVals == {RecordFlags_empty, 1, 32768}

AppFlagVals == {4660}

DetKeys == {0, 1}

\* the byte the CSPRNG fills a random nonce with
RandomNonce == {85}

\* n bytes of caller data: one byte fill + 1, then fill
Content(n, fill) == Norm(Plain(fill + 1, IF n > 0 THEN 1 ELSE 0) \o Plain(fill, n - 1))

TagLens == (0..MaxSmallLen) \cup {MAX_TAGS_LEN - 1, MAX_TAGS_LEN, MAX_TAGS_LEN + 1}

\* payload lengths: small ones, the largest that fits beside t tag bytes, one more
PayloadLens(t) ==
    (0..MaxSmallLen)
    \cup {MAX_RECORD_LEN - HEADER_LEN - padded_len(t) + d : d \in 0..1}

record_len(t, p) == HEADER_LEN + padded_len(t) + padded_len(p)

LenPairs == UNION {{<<t, p>> : p \in PayloadLens(t)} : t \in TagLens}

Parts(key, knd, det, ts, fl, appfl, t, p) ==
    [key |-> key, kind |-> knd, det |-> det, ts |-> ts, flags |-> fl, app_flags |-> appfl,
     tags_bytes |-> Content(t, 16), payload |-> Content(p, 32)]

\* every length pair with every flag value, and every deterministic key and
\* timestamp with the small length pairs
AllParts ==
    {Parts(key, knd, 0, TimestampOf(255), fl, appfl, tp[1], tp[2]) :
        key \in Keys, knd \in Kinds, fl \in FlagVals, appfl \in AppFlagVals, tp \in LenPairs}
    \cup
    {Parts(key, knd, det, ts, RecordFlags_empty, appfl, t, p) :
        key \in Keys, knd \in Kinds, det \in DetKeys, ts \in TsVals, appfl \in AppFlagVals,
        t \in 0..MaxSmallLen, p \in 0..MaxSmallLen}

\* lines 455-458 / 83-86: deterministic_key Some(key) or None (det = 0)
AddressOf(parts) ==
    IF parts.det # 0
    THEN Address_new_deterministic(parts.key, parts.kind, parts.det)
    ELSE Address_new_random(parts.key, parts.kind, CHOOSE r \in RandomNonce : TRUE)

Idle == op = "idle"

Init ==
    /\ debug_assertions \in BOOLEAN
    /\ op = "idle"
    /\ args = <<>>
    /\ res = "none"
    /\ rec = NoRecord
    /\ buffer = <<>>

Return(name, a, out) ==
    /\ op' = name
    /\ args' = a
    /\ res' = out.res
    /\ rec' = out.rec
    /\ buffer' = out.buffer
    /\ UNCHANGED debug_assertions

\* ---------------------------------------------------------------- actions
\* OwnedRecord::new(signing_secret_key, parts)
OwnedRecord_new ==
    /\ Idle
    /\ \E parts \in AllParts :
          /\ Return("new", parts,
                    new_replacement(parts.key, AddressOf(parts), parts.ts, parts.flags,
                                    parts.app_flags, parts.tags_bytes, parts.payload,
                                    debug_assertions))

\* OwnedRecord::new_replacement(signing_secret_key, address, ...): the address
\* names any author, the signing key may be the author's delegate
OwnedRecord_new_replacement ==
    /\ Idle
    /\ \E parts \in AllParts, author \in Keys :
          /\ parts.det = 0
          /\ Return("new_replacement", [parts EXCEPT !.det = author],
                    new_replacement(parts.key, Address_new_random(author, parts.kind, CHOOSE r \in RandomNonce : TRUE),
                                    parts.ts, parts.flags, parts.app_flags, parts.tags_bytes,
                                    parts.payload, debug_assertions))

\* caller-supplied destination buffers: slack bytes longer (or one shorter) than
\* the record, holding dirt in every byte
DirtVals == {0, 255}

Buffers(parts) ==
    {Plain(dirt, record_len(BLen(parts.tags_bytes), BLen(parts.payload)) + slack) :
        dirt \in DirtVals, slack \in (-1)..MaxSlack}

\* Record::write_record(buffer, signing_secret_key, parts)
Record_write_record ==
    /\ Idle
    /\ \E parts \in AllParts :
          \E buf \in Buffers(parts) :
             Return("write_record", [parts |-> parts, buffer |-> buf],
                    write_replacement_record(buf, parts.key, AddressOf(parts), parts.ts,
                                             parts.flags, parts.app_flags, parts.tags_bytes,
                                             parts.payload, debug_assertions))

\* Record::write_replacement_record(buffer, signing_secret_key, address, ...)
Record_write_replacement_record ==
    /\ Idle
    /\ \E parts \in AllParts, author \in Keys :
          /\ parts.det = 0
          /\ \E buf \in Buffers(parts) :
                Return("write_replacement_record",
                       [parts |-> [parts EXCEPT !.det = author], buffer |-> buf],
                       write_replacement_record(buf, parts.key,
                                                Address_new_random(author, parts.kind, CHOOSE r \in RandomNonce : TRUE),
                                                parts.ts, parts.flags, parts.app_flags,
                                                parts.tags_bytes, parts.payload,
                                                debug_assertions))

\* ------------------------------------------------- byte buffers from outside
\* A buffer signed by the holder of key, whose header fields, time prefix and
\* byte 70 are whatever its maker chose.
Forge(key, ts, fl, prefix, zero) ==
    LET signed == HashAndSign(WriteFields(Plain(0, HEADER_LEN), key,
                                          Address_new_random(key, 513, CHOOSE r \in RandomNonce : TRUE),
                                          ts, fl, 4660, <<>>, <<>>), key, ts)
    IN  CopyFromSlice(CopyFromSlice(signed, ID_START, Timestamp_to_be_bytes(prefix)),
                      BE_TIMESTAMP_END, Plain(zero, 1))

TS_OUT_OF_RANGE == <<128, 0, 0, 0, 0, 0>>

\* forged buffers: every flag value, the time prefix of the timestamp or zero
Forged ==
    {[how |-> "forged", key |-> MaxKey, ts |-> ts, flags |-> fl,
      prefix |-> IF own THEN ts ELSE TimestampOf(0), zero |-> zero,
      input |-> Forge(MaxKey, ts, fl, IF own THEN ts ELSE TimestampOf(0), zero)] :
        ts \in TsVals \cup {TS_OUT_OF_RANGE}, fl \in FlagVals,
        own \in BOOLEAN, zero \in {0, 1}}

\* a forged buffer whose signature bytes were replaced by zeros
Unsigned ==
    {[how |-> "unsigned", input |-> CopyFromSlice(a.input, SIG_START, Plain(0, SIG_END - SIG_START))] :
        a \in {f \in Forged : f.flags = RecordFlags_empty /\ f.zero = 0}}

\* n bytes of fill whose header declares t tag bytes and p payload bytes
Declared(n, fill, t, p) ==
    IF n < HEADER_LEN THEN Plain(fill, n)
    ELSE CopyFromSlice(CopyFromSlice(Plain(fill, n), LEN_T_START, to_le_bytes(t, 2)),
                       LEN_P_START, to_le_bytes(p, 4))

RawLens ==
    {0, HEADER_LEN - 1, HEADER_LEN, HEADER_LEN + 8, MAX_RECORD_LEN, MAX_RECORD_LEN + 8}

Raw ==
    {[how |-> "raw", len |-> n, fill |-> fill, t |-> t, p |-> p,
      input |-> Declared(n, fill, t, p)] :
        n \in RawLens, fill \in {0, 1}, t \in 0..MaxSmallLen,
        p \in {0, 1, MAX_RECORD_LEN - HEADER_LEN, MAX_RECORD_LEN}}

\* what a holder of the Record r can pass on: its bytes, cut short or extended
Derived(r, owner) ==
    {[how |-> "as_bytes", owner |-> owner, input |-> r],
     [how |-> "cut", owner |-> owner, input |-> Take(r, BLen(r) - 8)],
     [how |-> "extended", owner |-> owner, input |-> Norm(r \o Plain(0, 8))]}

Inputs(r, owner) == IF r = NoRecord THEN Forged \cup Unsigned \cup Raw ELSE Forged \cup Derived(r, owner)

\* from_bytes is given what a caller of from_vec is given, or the bytes of the
\* Record at hand
InputsUnverified(r, owner) == IF r = NoRecord THEN Forged \cup Raw ELSE Derived(r, owner)

\* whether thirty-two bytes that are no key of the model decompress matters
\* only to a buffer that holds such bytes
Oracles(input) ==
    IF /\ BLen(input) >= HEADER_LEN
       /\ IsKeyBytes(Slice(input, SIGNING_KEY_START, SIGNING_KEY_END))
       /\ IsKeyBytes(Slice(input, AUTHOR_KEY_START, AUTHOR_KEY_END))
    THEN {FALSE} ELSE BOOLEAN

\* the caller holds an OwnedRecord it constructed, whose bytes it can copy and
\* pass on
Owned == rec # NoRecord /\ op \in {"new", "new_replacement"}

\* Record::from_bytes(input)
Record_from_bytes ==
    /\ Idle \/ Owned
    /\ \E a \in InputsUnverified(rec, op) :
          Return("from_bytes", a, from_bytes(a.input))

\* OwnedRecord::from_vec(vec)
OwnedRecord_from_vec ==
    /\ Idle \/ Owned
    /\ \E a \in Inputs(rec, op) :
          \E decompresses \in Oracles(a.input) :
             Return("from_vec", a, from_vec(a.input, decompresses))

\* record.verify() on the Record the caller holds
Record_verify ==
    /\ rec # NoRecord
    /\ op # "verify"
    /\ \E decompresses \in Oracles(rec) :
          /\ op' = "verify"
          /\ args' = [self |-> rec]
          /\ res' = verify(rec, decompresses)
          /\ UNCHANGED <<rec, buffer, debug_assertions>>

\* record.nonce() on the Record the caller holds
Record_nonce ==
    /\ rec # NoRecord
    /\ op \notin {"nonce", "verify"}
    /\ op' = "nonce"
    /\ args' = [self |-> rec]
    /\ res' = IF nonce_ok(rec) THEN "Ok" ELSE "panic"
    /\ UNCHANGED <<rec, buffer, debug_assertions>>

TamperVals == {0, 2}

MaxTamperOffset == HEADER_LEN + 16

TamperPositions(r) ==
    {p \in HASHABLE_START..(BLen(r) - 1) : p < MaxTamperOffset} \cup {BLen(r) - 1}

\* record.verify() on a copy of a valid Record with the byte at p changed to val
Record_verify_tampered ==
    /\ Owned
    /\ verify(rec, FALSE) = "Ok"
    /\ \E p \in TamperPositions(rec), val \in TamperVals :
          /\ ~SameVal(At(rec, p), Run("b", val, 1))
          /\ \E decompresses \in Oracles(CopyFromSlice(rec, p, Plain(val, 1))) :
                res' = verify(CopyFromSlice(rec, p, Plain(val, 1)), decompresses)
          /\ op' = "verify_tampered"
          /\ args' = [valid |-> rec, p |-> p, val |-> val]
          /\ rec' = NoRecord
          /\ buffer' = <<>>
          /\ UNCHANGED debug_assertions

\* the caller lets go of the Record and of the buffer
DropRecord ==
    /\ ~Idle
    /\ op' = "idle"
    /\ args' = <<>>
    /\ res' = "none"
    /\ rec' = NoRecord
    /\ buffer' = <<>>
    /\ UNCHANGED debug_assertions

Next ==
    \/ OwnedRecord_new
    \/ OwnedRecord_new_replacement
    \/ Record_write_record
    \/ Record_write_replacement_record
    \/ Record_from_bytes
    \/ OwnedRecord_from_vec
    \/ Record_verify
    \/ Record_nonce
    \/ Record_verify_tampered
    \/ DropRecord

Spec == Init /\ [][Next]_vars

\* ----------------------------------------------------------------- claims
\* a flag bit outside the declared flags
RESERVED_MASK == 65535 - RecordFlags_all

HasReservedBit(fl) == BitAnd(fl, RESERVED_MASK, 16) # 0

ValidParts(parts) ==
    /\ BLen(parts.tags_bytes) <= MAX_TAGS_LEN
    /\ record_len(BLen(parts.tags_bytes), BLen(parts.payload)) <= MAX_RECORD_LEN
    /\ ~HasReservedBit(parts.flags)

AccessorsReturn(r, parts) ==
    /\ payload_bytes_ok(r) /\ SameBytes(payload_bytes(r), parts.payload)
    /\ tags_bytes_ok(r) /\ SameBytes(tags_bytes(r), parts.tags_bytes)
    /\ kind(r) = parts.kind
    /\ flags(r) = parts.flags
    /\ app_flags(r) = parts.app_flags
    /\ timestamp(r) = parts.ts

\* C1: OwnedRecord::new on valid parts (tags of 0..65,536 bytes, padded total
\* at most 1,048,576, no reserved flag bit) succeeds, the result verifies, and
\* every accessor returns the input it was given.
C1_RoundTrip ==
    (op = "new" /\ ValidParts(args))
        => (res = "Ok" /\ verify(rec, FALSE) = "Ok" /\ AccessorsReturn(rec, args))

Constructing == op \in {"new", "new_replacement", "write_record", "write_replacement_record"}

Writing == op \in {"write_record", "write_replacement_record"}

PartsGiven == IF Writing THEN args.parts ELSE args

TotalGiven == record_len(BLen(PartsGiven.tags_bytes), BLen(PartsGiven.payload))

TooLongGiven ==
    \/ BLen(PartsGiven.tags_bytes) > MAX_TAGS_LEN
    \/ TotalGiven > MAX_RECORD_LEN

\* the parts pass the length checks and the flag check of the code
PassChecks(parts) ==
    /\ BLen(parts.tags_bytes) <= MAX_TAGS_LEN
    /\ record_len(BLen(parts.tags_bytes), BLen(parts.payload)) <= MAX_RECORD_LEN
    /\ ~FlagsRejected(parts.flags)

\* C2: write_replacement_record into any caller-supplied buffer that is long
\* enough, whatever it held before and however much longer it is, succeeds for
\* parts that pass the length and flag checks, and the Record returned verifies.
C2_WriteValidated ==
    (/\ op = "write_replacement_record"
     /\ BLen(args.buffer) >= TotalGiven
     /\ PassChecks(args.parts))
        => (res = "Ok" /\ verify(rec, FALSE) = "Ok")

\* C3 as stated: changing one byte of the hashable region of a valid Record
\* makes verify() report a hash mismatch or a signature error, nothing else.
C3_TamperHashOrSignature ==
    op = "verify_tampered" => res \in {"HashMismatch", "SignatureError"}

InKeyField(p) ==
    \/ p \in SIGNING_KEY_START..(SIGNING_KEY_END - 1)
    \/ p \in AUTHOR_KEY_START..(AUTHOR_KEY_END - 1)

InLengthField(p) == p \in LEN_T_START..(LEN_P_END - 1)

\* C3 amended: changing one byte of the hashable region of a valid Record
\* makes verify() fail; it reports a hash mismatch, or a section length
\* mismatch when the byte lies in a length field (202..207), or a public key
\* error when the byte lies in a key field (112..143, 160..191).
C3_TamperDetected ==
    op = "verify_tampered" =>
        \/ res = "HashMismatch"
        \/ res = "RecordSectionLengthMismatch" /\ InLengthField(args.p)
        \/ res = "PublicKeyError" /\ InKeyField(args.p)

C3_Witness ==
    /\ op = "verify_tampered"
    /\ res = "HashMismatch"
    /\ args.p >= HEADER_LEN
    /\ verify(args.valid, FALSE) = "Ok"

DeclaredLen(input) ==
    HEADER_LEN + padded_len(from_le_bytes(Slice(input, LEN_T_START, LEN_T_END)))
               + padded_len(from_le_bytes(Slice(input, LEN_P_START, LEN_P_END)))

\* C5: from_bytes never panics: it returns a Record when the input has at
\* least 208 bytes and declares at most 1,048,576, and a length error otherwise,
\* also when the input is shorter than the length it declares.
C5_FromBytesTotal ==
    op = "from_bytes" =>
        /\ res # "panic"
        /\ IF BLen(args.input) >= HEADER_LEN /\ DeclaredLen(args.input) <= MAX_RECORD_LEN
           THEN res = "Ok"
           ELSE res \in {"EndOfInput", "RecordTooLong"}

ErrorKinds ==
    {"RecordTooLong", "RecordTooShort", "RecordSectionLengthMismatch", "PublicKeyError",
     "HashMismatch", "SignatureError", "TimestampOutOfRange", "ReservedFlagsUsed",
     "IdZerosAreNotZero"}

Verifying == op \in {"from_vec", "verify", "verify_tampered"}

\* the bytes verify() was run on
Verified ==
    IF op = "from_vec" THEN args.input
    ELSE IF op = "verify" THEN args.self
    ELSE CopyFromSlice(args.valid, args.p, Plain(args.val, 1))

Valid(r) == r # NoRecord /\ verify(r, FALSE) = "Ok"

\* the bytes of the Id before its hash: time prefix and the two zero bytes
IdHead(r) == [i \in 1..(HASH_START - ID_START) |-> ByteVal(At(r, ID_START + i - 1))]

\* a.id() < b.id() under raw byte comparison; when the first eight bytes tie
\* the hash bytes decide, and the tie is counted as in order
IdInOrder(a, b) == LexLess(IdHead(a), IdHead(b)) \/ IdHead(a) = IdHead(b)

\* C7: of two valid Records, constructed or accepted by verify(), the one with
\* the smaller timestamp has the smaller Id under raw byte comparison.
C7_IdOrdering ==
    [][(Valid(rec) /\ Valid(rec'))
         => /\ (LexLess(timestamp(rec), timestamp(rec')) => IdInOrder(rec, rec'))
            /\ (LexLess(timestamp(rec'), timestamp(rec)) => IdInOrder(rec', rec))]_vars

C9_LengthInvariant ==
    (res = "Ok" /\ rec # NoRecord /\ op # "verify") =>
        /\ BLen(rec) >= HEADER_LEN
        /\ BLen(rec) <= MAX_RECORD_LEN
        /\ HEADER_LEN + tags_padded_len(rec) + payload_padded_len(rec) = BLen(rec)

\* C10: from_bytes on the bytes of a Record made by OwnedRecord::new succeeds
\* and returns a Record equal to it.
C10_Reinterpret ==
    (op = "from_bytes" /\ args.how = "as_bytes" /\ args.owner = "new")
        => (res = "Ok" /\ SameBytes(rec, args.input))

RECURSIVE AllZero(_)
AllZero(bs) ==
    bs = <<>> \/ (Head(bs).k = "b" /\ Head(bs).v = 0 /\ AllZero(Tail(bs)))

\* the bytes of r after the t tag bytes up to the 8-byte boundary
TagPadding(r, t) == Slice(r, HEADER_LEN + t, HEADER_LEN + padded_len(t))

\* the bytes of r after the p payload bytes up to the end of r
PayloadPadding(r, t, p) == Drop(r, HEADER_LEN + padded_len(t) + p)

\* C11: after write_replacement_record succeeds on a caller-supplied buffer,
\* whatever the buffer held before, every byte of the tag padding and of the
\* payload padding of the Record returned is zero.
C11_ZeroPadding ==
    (op = "write_replacement_record" /\ res = "Ok") =>
        /\ AllZero(TagPadding(rec, BLen(args.parts.tags_bytes)))
        /\ AllZero(PayloadPadding(rec, BLen(args.parts.tags_bytes),
                                  BLen(args.parts.payload)))

\* C12: nonce() on a valid Record returns without panicking, and returns the
\* 14 bytes at offsets 144..158, the first 14 bytes of address().
C12_NonceAccessor ==
    (op = "nonce" /\ Valid(args.self)) =>
        /\ res = "Ok"
        /\ BLen(nonce(args.self)) = NONCE_WIDTH
        /\ SameBytes(nonce(args.self), Take(Record_address(args.self), NONCE_WIDTH))

====
